---- MODULE Spec2Model ----
(***************************************************************************)
(* Model of backend/services/document_comparison_service.py.               *)
(*                                                                         *)
(* Python strings are TLA+ strings; a character is a string of length 1.   *)
(* A float that the code computes as a quotient of two small integers is   *)
(* the pair <<numerator, denominator>>; comparisons against the literals   *)
(* 0.8 and 0.5 are done exactly by cross-multiplication (within the        *)
(* denominators used here no quotient lies between 4/5 and the double      *)
(* nearest to 0.8, nor between 1/2 and 0.5).                               *)
(***************************************************************************)
EXTENDS Integers, Sequences, FiniteSets, TLC

VARIABLES
    text1, text2,       \* arguments of the text helpers
    similarity,         \* value returned by _calculate_text_similarity
    sentences,          \* value returned by _split_into_sentences
    sumargs, summary,   \* arguments / result of _generate_comparison_summary
    doc1, doc2,         \* the two analysis results handed to compare_documents
    report,             \* outcome of compare_documents(doc1, doc2)
    exchanged,          \* outcome of compare_documents(doc2, doc1)
    _document_comparison_service,   \* the module-level singleton
    threads,            \* per caller: position in get_document_comparison_service
    constructed         \* instances whose __init__ completed

vars == <<text1, text2, similarity, sentences, sumargs, summary, doc1, doc2,
          report, exchanged, _document_comparison_service, threads, constructed>>

textVars == <<text1, text2, similarity, sentences>>
sumVars == <<sumargs, summary>>
docVars == <<doc1, doc2, report, exchanged>>
svcVars == <<_document_comparison_service, threads, constructed>>

\* Outcome of a call: not made yet, returned a value, or raised.
NotCalled == [outcome |-> "none"]
Returned(v) == [outcome |-> "returned", value |-> v]
Raised(e) == [outcome |-> "raised", exception |-> e]

\* Python values whose type the code does not check before using them
PyStr(s) == [type |-> "str", v |-> s]
PyInt(n) == [type |-> "int", v |-> n]
PyList(l) == [type |-> "list", v |-> l]
PyNone == [type |-> "NoneType"]

-----------------------------------------------------------------------------
(* Bounds of the text helpers' inputs *)

MaxSplitLen == 5    \* longest text handed to _split_into_sentences
MaxSimLen == 3      \* longest text handed to _calculate_text_similarity

-----------------------------------------------------------------------------
(* Characters and strings *)

Whitespace == {" ", "\n", "\t"}
Boundary == {".", "!", "?"}

CharAt(s, i) == SubSeq(s, i, i)

\* str.lower() on one character
LowerChar(c) ==
    CASE c = "A" -> "a"
      [] c = "B" -> "b"
      [] OTHER -> c

RECURSIVE lower(_)
lower(s) ==
    IF Len(s) = 0 THEN ""
    ELSE LowerChar(CharAt(s, 1)) \o lower(SubSeq(s, 2, Len(s)))

RECURSIVE lstrip(_)
lstrip(s) ==
    IF Len(s) > 0 /\ CharAt(s, 1) \in Whitespace
    THEN lstrip(SubSeq(s, 2, Len(s)))
    ELSE s

RECURSIVE rstrip(_)
rstrip(s) ==
    IF Len(s) > 0 /\ CharAt(s, Len(s)) \in Whitespace
    THEN rstrip(SubSeq(s, 1, Len(s) - 1))
    ELSE s

\* str.strip()
strip_nostrip(s) == s

strip(s) == rstrip(lstrip(s))

\* str.split() with no argument: the maximal runs of non-whitespace
RECURSIVE SplitFrom(_, _, _)
SplitFrom(s, i, cur) ==
    IF i > Len(s)
    THEN IF cur = "" THEN <<>> ELSE <<cur>>
    ELSE IF CharAt(s, i) \in Whitespace
         THEN (IF cur = "" THEN <<>> ELSE <<cur>>) \o SplitFrom(s, i + 1, "")
         ELSE SplitFrom(s, i + 1, cur \o CharAt(s, i))

split(s) == SplitFrom(s, 1, "")

\* re.split(r'[.!?]+', text): cut at every maximal run of boundary characters
RECURSIVE ReSplitFrom(_, _, _, _)
ReSplitFrom(s, i, cur, inRun) ==
    IF i > Len(s)
    THEN <<cur>>
    ELSE IF CharAt(s, i) \in Boundary
         THEN IF inRun
              THEN ReSplitFrom(s, i + 1, "", TRUE)
              ELSE <<cur>> \o ReSplitFrom(s, i + 1, "", TRUE)
         ELSE ReSplitFrom(s, i + 1, cur \o CharAt(s, i), FALSE)

re_split(s) == ReSplitFrom(s, 1, "", FALSE)

\* set(list)
set(l) == {l[i] : i \in 1..Len(l)}

\* [f(x) for x in l if x]
RECURSIVE StripNonEmpty(_)
StripNonEmpty(l) ==
    IF l = <<>> THEN <<>>
    ELSE (IF strip(l[1]) # "" THEN <<strip(l[1])>> ELSE <<>>)
         \o StripNonEmpty(Tail(l))

-----------------------------------------------------------------------------
(* The text helpers *)

_split_into_sentences(text) == StripNonEmpty(re_split(text))

One == <<1, 1>>
Zero == <<0, 1>>

_calculate_text_similarity_nolower(t1, t2) ==
    IF t1 = "" /\ t2 = "" THEN One
    ELSE IF t1 = "" \/ t2 = "" THEN Zero
    ELSE LET words1 == set(split(t1))
             words2 == set(split(t2))
             intersection == words1 \cap words2
             union == words1 \cup words2
         IN  IF Cardinality(union) = 0 THEN One
             ELSE <<Cardinality(intersection), Cardinality(union)>>

_calculate_text_similarity(t1, t2) ==
    IF t1 = "" /\ t2 = "" THEN One
    ELSE IF t1 = "" \/ t2 = "" THEN Zero
    ELSE LET words1 == set(split(lower(t1)))
             words2 == set(split(lower(t2)))
             intersection == words1 \cap words2
             union == words1 \cup words2
         IN  IF Cardinality(union) = 0 THEN One
             ELSE <<Cardinality(intersection), Cardinality(union)>>

\* float equality and order on quotients
FEq(p, q) == p[1] * q[2] = q[1] * p[2]
FGt(p, q) == p[1] * q[2] > q[1] * p[2]

-----------------------------------------------------------------------------
(* Input texts *)

RECURSIVE StringsOver(_, _)
StringsOver(alphabet, n) ==
    IF n = 0 THEN {""}
    ELSE LET shorter == StringsOver(alphabet, n - 1)
         IN  shorter \cup {s \o c : s \in shorter, c \in alphabet}

SplitAlphabet == {"a", "b", " ", ".", "?"}
SimAlphabet == {"a", "A", "b", " ", "\n"}

SplitTexts == StringsOver(SplitAlphabet, MaxSplitLen)
SimTexts == StringsOver(SimAlphabet, MaxSimLen)

NoSummaryArgs == [score |-> Zero, added |-> 0, removed |-> 0, diff |-> <<>>]
NoDoc == <<>>

IdleText ==
    /\ text1 = "" /\ text2 = "" /\ similarity = NotCalled /\ sentences = NotCalled
IdleSummary == sumargs = NoSummaryArgs /\ summary = NotCalled
IdleDocs ==
    /\ doc1 = NoDoc /\ doc2 = NoDoc /\ report = NotCalled /\ exchanged = NotCalled
IdleService ==
    /\ _document_comparison_service = 0
    /\ threads = <<>>
    /\ constructed = {}

-----------------------------------------------------------------------------
(* Specification of _split_into_sentences *)

InitSplit ==
    /\ text1 \in SplitTexts
    /\ text2 = "" /\ similarity = NotCalled /\ sentences = NotCalled
    /\ IdleSummary /\ IdleDocs /\ IdleService

CallSplit ==
    /\ sentences = NotCalled
    /\ sentences' = Returned(_split_into_sentences(text1))
    /\ UNCHANGED <<text1, text2, similarity, sumVars, docVars, svcVars>>

NextSplit == CallSplit

SpecSplit == InitSplit /\ [][NextSplit]_vars

(* Specification of _calculate_text_similarity *)

InitSim ==
    /\ text1 \in SimTexts /\ text2 \in SimTexts
    /\ similarity = NotCalled /\ sentences = NotCalled
    /\ IdleSummary /\ IdleDocs /\ IdleService

CallSimilarity ==
    /\ similarity = NotCalled
    /\ similarity' = Returned(_calculate_text_similarity(text1, text2))
    /\ UNCHANGED <<text1, text2, sentences, sumVars, docVars, svcVars>>

NextSim == CallSimilarity

SpecSim == InitSim /\ [][NextSim]_vars

-----------------------------------------------------------------------------
(* _generate_comparison_summary *)

MaxDen == 3         \* largest denominator of a score given as a plain quotient
MaxCount == 2       \* largest added_count / removed_count handed to the summary
MaxDiff == 2        \* largest |page_count_diff| / |table_count_diff|

\* dict.get(key, default)
get_nodefault(d, k, default) == IF k \in DOMAIN d THEN d[k] ELSE PyNone

get(d, k, default) == IF k \in DOMAIN d THEN d[k] ELSE default

abs(n) == IF n < 0 THEN -n ELSE n

\* round(score * 100, 1), as a number of tenths (ties go to the even tenth)
RoundTenths(score) ==
    LET scaled == score[1] * 1000
        q == scaled \div score[2]
        r == scaled % score[2]
    IN  IF 2 * r > score[2] THEN q + 1
        ELSE IF 2 * r < score[2] THEN q
        ELSE IF q % 2 = 0 THEN q ELSE q + 1

\* str() of a float with one decimal, as an f-string renders it
FormatTenths(t) == ToString(t \div 10) \o "." \o ToString(t % 10)

\* " ".join(parts)
RECURSIVE join(_, _)
join(sep, parts) ==
    IF parts = <<>> THEN ""
    ELSE IF Len(parts) = 1 THEN parts[1]
    ELSE parts[1] \o sep \o join(sep, Tail(parts))

OpeningPart(score) ==
    <<"The documents are " \o FormatTenths(RoundTenths(score))
        \o "% similar in content.">>

AddedPart(added_count) ==
    IF added_count > 0
    THEN <<"Document 2 contains " \o ToString(added_count)
            \o " additional sentence(s) not found in Document 1.">>
    ELSE <<>>

RemovedPart(removed_count) ==
    IF removed_count > 0
    THEN <<"Document 2 is missing " \o ToString(removed_count)
            \o " sentence(s) that are present in Document 1.">>
    ELSE <<>>

PagePart_noabs(page_diff) ==
    IF page_diff > 0
    THEN <<"Document 2 has " \o ToString(page_diff)
            \o " more page(s) than Document 1.">>
    ELSE IF page_diff < 0
    THEN <<"Document 2 has " \o ToString(page_diff)
            \o " fewer page(s) than Document 1.">>
    ELSE <<>>

PagePart(page_diff) ==
    IF page_diff > 0
    THEN <<"Document 2 has " \o ToString(page_diff)
            \o " more page(s) than Document 1.">>
    ELSE IF page_diff < 0
    THEN <<"Document 2 has " \o ToString(abs(page_diff))
            \o " fewer page(s) than Document 1.">>
    ELSE <<>>

TablePart(table_diff) ==
    IF table_diff > 0
    THEN <<"Document 2 has " \o ToString(table_diff)
            \o " more table(s) than Document 1.">>
    ELSE IF table_diff < 0
    THEN <<"Document 2 has " \o ToString(abs(table_diff))
            \o " fewer table(s) than Document 1.">>
    ELSE <<>>

ClosingPart_ge(score) ==
    IF ~FGt(<<4, 5>>, score) THEN <<"The documents are very similar.">>
    ELSE IF FGt(score, <<1, 2>>) THEN <<"The documents have moderate similarity.">>
    ELSE <<"The documents are quite different.">>

ClosingPart(score) ==
    IF FGt(score, <<4, 5>>) THEN <<"The documents are very similar.">>
    ELSE IF FGt(score, <<1, 2>>) THEN <<"The documents have moderate similarity.">>
    ELSE <<"The documents are quite different.">>

_generate_comparison_summary(similarity_score, added_count, removed_count, structure_diff) ==
    LET summary_parts ==
            OpeningPart(similarity_score)
            \o AddedPart(added_count)
            \o RemovedPart(removed_count)
            \o PagePart(get(structure_diff, "page_count_diff", 0))
            \o TablePart(get(structure_diff, "table_count_diff", 0))
            \o ClosingPart(similarity_score)
    IN  join(" ", summary_parts)

Scores ==
    {<<n, 100>> : n \in {0, 25, 50, 51, 80, 81, 100}}
    \cup {p \in (0..MaxDen) \X (1..MaxDen) : p[1] <= p[2]}

DiffValues == (-MaxDiff)..MaxDiff

StructureDiffs ==
    {<<>>}
    \cup {[page_count_diff |-> p] : p \in DiffValues}
    \cup {[table_count_diff |-> t] : t \in DiffValues}
    \cup {[page_count_diff |-> p, table_count_diff |-> t] :
            p \in DiffValues, t \in DiffValues}

InitSummary ==
    /\ sumargs \in [score : Scores, added : 0..MaxCount, removed : 0..MaxCount,
                    diff : StructureDiffs]
    /\ summary = NotCalled
    /\ IdleText /\ IdleDocs /\ IdleService

CallSummary ==
    /\ summary = NotCalled
    /\ summary' = Returned(_generate_comparison_summary(
                      sumargs.score, sumargs.added, sumargs.removed, sumargs.diff))
    /\ UNCHANGED <<sumargs, textVars, docVars, svcVars>>

NextSummary == CallSummary

SpecSummary == InitSummary /\ [][NextSummary]_vars

-----------------------------------------------------------------------------
(* compare_documents *)

MaxDocLen == 3      \* longest content of the exhaustively enumerated documents
MaxPages == 1       \* largest page_count of an input document
MaxTables == 1      \* largest number of tables of an input document
PoolSize == 12      \* number of distinct sentences available to the long documents

\* Result of evaluating an expression: a value, or an exception taking over
Ok(v) == [ok |-> TRUE, value |-> v]
Err(t, m) == [ok |-> FALSE, exc |-> [type |-> t, message |-> m]]

\* bool(x) for the values above
truthy(x) ==
    CASE x.type = "NoneType" -> FALSE
      [] x.type = "int" -> x.v # 0
      [] OTHER -> Len(x.v) > 0

\* self._calculate_text_similarity(doc1_content, doc2_content) on any values:
\* the two emptiness tests come first, .lower() needs a str
similarity_call(c1, c2) ==
    IF ~truthy(c1) /\ ~truthy(c2) THEN Ok(One)
    ELSE IF ~truthy(c1) \/ ~truthy(c2) THEN Ok(Zero)
    ELSE IF c1.type # "str"
    THEN Err("AttributeError", "'" \o c1.type \o "' object has no attribute 'lower'")
    ELSE IF c2.type # "str"
    THEN Err("AttributeError", "'" \o c2.type \o "' object has no attribute 'lower'")
    ELSE Ok(_calculate_text_similarity(c1.v, c2.v))

\* self._split_into_sentences(content): re.split needs a str
split_call(c) ==
    IF c.type = "str" THEN Ok(_split_into_sentences(c.v))
    ELSE Err("TypeError",
             "expected string or bytes-like object, got '" \o c.type \o "'")

\* a - b
sub(a, b) ==
    IF a.type = "int" /\ b.type = "int" THEN Ok(a.v - b.v)
    ELSE Err("TypeError", "unsupported operand type(s) for -: '" \o a.type
                           \o "' and '" \o b.type \o "'")

\* len(x)
len(x) ==
    IF x.type \in {"list", "str"} THEN Ok(Len(x.v))
    ELSE Err("TypeError", "object of type '" \o x.type \o "' has no len()")

\* The elements of l, each once, in order of first appearance
RECURSIVE Dedup(_)
Dedup(l) ==
    IF l = <<>> THEN <<>>
    ELSE LET rest == Dedup(SubSeq(l, 1, Len(l) - 1))
         IN  IF l[Len(l)] \in set(rest) THEN rest ELSE Append(rest, l[Len(l)])

Reverse(l) == [i \in 1..Len(l) |-> l[Len(l) + 1 - i]]
Rotate(l, k) == [i \in 1..Len(l) |-> l[((i - 1 + k) % Len(l)) + 1]]

\* list(S) for a set S of strings: the iteration order of a set is not fixed
\* by the language (string hashes differ from process to process).  The orders
\* considered are the rotations of the order of appearance and their reversals;
\* pick = <<rotation, reversed>> selects one.  base lists a superset of S.
list(S, base, pick) ==
    LET inS == SelectSeq(base, LAMBDA x : x \in S)
        rot == IF inS = <<>> THEN inS ELSE Rotate(inS, pick[1] % Len(inS))
    IN  IF pick[2] THEN Reverse(rot) ELSE rot

OrderPicks(S) ==
    (0..(IF S = {} THEN 0 ELSE Cardinality(S) - 1))
        \X (IF Cardinality(S) > 2 THEN BOOLEAN ELSE {FALSE})

\* l[:10]
FirstTen_all(l) == l

FirstTen(l) == SubSeq(l, 1, IF Len(l) < 10 THEN Len(l) ELSE 10)

added_of_doc2only(set1, set2) == set2

added_of(set1, set2) == set2 \ set1

removed_of_all(set1, set2) == set1

removed_of(set1, set2) == set1 \ set2

common_of(set1, set2) == set1 \cap set2

\* the dict literal bound to structure_comparison
structure_comparison_of(d1, d2) ==
    LET p2 == get(d2, "page_count", PyInt(0))
        p1 == get(d1, "page_count", PyInt(0))
        page_count_diff == sub(p2, p1)
        t2 == len(get(d2, "tables", PyList(<<>>)))
        t1 == len(get(d1, "tables", PyList(<<>>)))
    IN  IF ~page_count_diff.ok THEN page_count_diff
        ELSE IF ~t2.ok THEN t2
        ELSE IF ~t1.ok THEN t1
        ELSE Ok([page_count_diff |-> page_count_diff.value,
                 table_count_diff |-> t2.value - t1.value,
                 doc1_pages |-> p1.v,
                 doc2_pages |-> p2.v,
                 doc1_tables |-> t1.value,
                 doc2_tables |-> t2.value])

\* the body of the try block
compare_body(d1, d2, pickAdded, pickRemoved) ==
    LET doc1_content == get(d1, "content", PyStr(""))
        doc2_content == get(d2, "content", PyStr(""))
        similarity_score == similarity_call(doc1_content, doc2_content)
        doc1_sentences == split_call(doc1_content)
        doc2_sentences == split_call(doc2_content)
    IN  IF ~similarity_score.ok THEN similarity_score
        ELSE IF ~doc1_sentences.ok THEN doc1_sentences
        ELSE IF ~doc2_sentences.ok THEN doc2_sentences
        ELSE
        LET doc1_sentence_set == set(doc1_sentences.value)
            doc2_sentence_set == set(doc2_sentences.value)
            added_sentences ==
                list(added_of(doc1_sentence_set, doc2_sentence_set),
                     Dedup(doc2_sentences.value), pickAdded)
            removed_sentences ==
                list(removed_of(doc1_sentence_set, doc2_sentence_set),
                     Dedup(doc1_sentences.value), pickRemoved)
            common_sentences == common_of(doc1_sentence_set, doc2_sentence_set)
            structure_comparison == structure_comparison_of(d1, d2)
        IN  IF ~structure_comparison.ok THEN structure_comparison
            ELSE Ok(
              [document1 |->
                  [filename |-> get(d1, "filename", PyStr("Document 1")),
                   page_count |-> structure_comparison.value.doc1_pages,
                   table_count |-> structure_comparison.value.doc1_tables,
                   content_length |-> Len(doc1_content.v)],
               document2 |->
                  [filename |-> get(d2, "filename", PyStr("Document 2")),
                   page_count |-> structure_comparison.value.doc2_pages,
                   table_count |-> structure_comparison.value.doc2_tables,
                   content_length |-> Len(doc2_content.v)],
               similarity_score |-> similarity_score.value,
               differences |->
                  [added_content |-> FirstTen(added_sentences),
                   removed_content |-> FirstTen(removed_sentences),
                   common_content_count |-> Cardinality(common_sentences),
                   total_added |-> Len(added_sentences),
                   total_removed |-> Len(removed_sentences)],
               structure_comparison |-> structure_comparison.value,
               summary |-> _generate_comparison_summary(
                               similarity_score.value,
                               Len(added_sentences),
                               Len(removed_sentences),
                               structure_comparison.value)])

\* except Exception as e: raise Exception(f"Failed to compare documents: {str(e)}")
rewrap_bare(e) == e

rewrap(e) ==
    [type |-> "Exception",
     message |-> "Failed to compare documents: " \o e.message,
     context |-> e]

compare_documents(d1, d2, pickAdded, pickRemoved) ==
    LET r == compare_body(d1, d2, pickAdded, pickRemoved)
    IN  IF r.ok THEN Returned(r.value) ELSE Raised(rewrap(r.exc))

(* Input documents *)

Fields == {"filename", "content", "pages", "tables", "page_count"}

Table == [row_count |-> 1, column_count |-> 1, cells |-> <<>>]
Page(n) == [page_number |-> n, content |-> "", width |-> 1, height |-> 1]

Restrict(d, keys) == [k \in keys |-> d[k]]

\* what analyze_document returns for a document with the given text
Analysis(name, content, npages, ntables) ==
    [filename |-> PyStr(name),
     content |-> PyStr(content),
     pages |-> PyList([i \in 1..npages |-> Page(i)]),
     tables |-> PyList([i \in 1..ntables |-> Table]),
     page_count |-> PyInt(npages)]

DocAlphabet == {"a", "b", ".", " "}

\* complete analysis results over every short content
ContentDocs ==
    {Analysis("a.pdf", c, 1, 0) : c \in StringsOver(DocAlphabet, MaxDocLen)}

\* analysis results with any subset of the fields left out
SparseDocs ==
    {Restrict(Analysis("b.pdf", "A b. c", np, nt), keys) :
        np \in 0..MaxPages, nt \in 0..MaxTables, keys \in SUBSET Fields}

\* analysis results in which a field holds None
MalformedDocs ==
    {[Analysis("c.pdf", c, np, nt) EXCEPT ![k] = PyNone] :
        c \in {"", "b. c"}, np \in 0..MaxPages, nt \in 0..MaxTables,
        k \in {"content", "tables", "page_count"}}

FieldDocs == SparseDocs \cup MalformedDocs

\* long documents: the sentences lo..hi of a pool of distinct sentences, each
\* followed by a boundary
Letters == <<"a", "b", "c", "d">>
PoolSentence(k) == Letters[((k - 1) \div 4) + 1] \o Letters[((k - 1) % 4) + 1]
PoolBoundary(k) ==
    CASE k % 3 = 0 -> ". "
      [] k % 3 = 1 -> "!"
      [] OTHER -> "?!\n"

RECURSIVE PoolText(_, _)
PoolText(lo, hi) ==
    IF lo > hi THEN ""
    ELSE PoolSentence(lo) \o PoolBoundary(lo) \o PoolText(lo + 1, hi)

PoolDocs ==
    {Analysis("long.pdf", PoolText(lo, hi), 1, 0) :
        lo \in 1..PoolSize, hi \in 0..PoolSize}

\* the sentence sets that decide how many iteration orders there are
SentenceSet(d) ==
    LET c == get(d, "content", PyStr(""))
    IN  IF c.type = "str" THEN set(_split_into_sentences(c.v)) ELSE {}

InitCompare ==
    /\ \E pair \in (ContentDocs \X ContentDocs) \cup (FieldDocs \X FieldDocs) :
          doc1 = pair[1] /\ doc2 = pair[2]
    /\ report = NotCalled /\ exchanged = NotCalled
    /\ IdleText /\ IdleSummary /\ IdleService

\* a caller runs compare_documents(doc1, doc2)
Compare ==
    /\ report = NotCalled
    /\ \E pa \in OrderPicks(SentenceSet(doc2) \ SentenceSet(doc1)),
          pr \in OrderPicks(SentenceSet(doc1) \ SentenceSet(doc2)) :
          report' = compare_documents(doc1, doc2, pa, pr)
    /\ UNCHANGED <<doc1, doc2, exchanged, textVars, sumVars, svcVars>>

\* and then compare_documents(doc2, doc1)
CompareExchanged ==
    /\ report # NotCalled
    /\ exchanged = NotCalled
    /\ \E pa \in OrderPicks(SentenceSet(doc1) \ SentenceSet(doc2)),
          pr \in OrderPicks(SentenceSet(doc2) \ SentenceSet(doc1)) :
          exchanged' = compare_documents(doc2, doc1, pa, pr)
    /\ UNCHANGED <<doc1, doc2, report, textVars, sumVars, svcVars>>

NextCompare == Compare \/ CompareExchanged

SpecCompare == InitCompare /\ [][NextCompare]_vars

(* compare_documents on long documents *)

InitLong ==
    /\ doc1 \in PoolDocs /\ doc2 \in PoolDocs
    /\ report = NotCalled /\ exchanged = NotCalled
    /\ IdleText /\ IdleSummary /\ IdleService

NextLong == Compare

SpecLong == InitLong /\ [][NextLong]_vars

-----------------------------------------------------------------------------
(* get_document_comparison_service *)

NumCallers == 2     \* threads calling get_document_comparison_service
MaxCalls == 2       \* calls made by each of them

Callers == 1..NumCallers

\* the value None of _document_comparison_service; instances are 1, 2, ...
NoService == 0

\* what the environment offers a constructor: a managed identity, only an API
\* key, or neither
Credentials == {"managed", "key", "none"}

\* DocumentComparisonService.__init__: the client is built with the managed
\* identity, else with the key, else the constructor raises
__init__(credential) ==
    IF credential = "managed" THEN Ok("managed identity")
    ELSE IF credential = "key" THEN Ok("API key")
    ELSE Err("Exception", "No valid authentication method found for Document Intelligence")

InitService ==
    /\ _document_comparison_service = NoService
    /\ threads = [t \in Callers |->
                    [pc |-> "idle", calls |-> 0, new |-> NoService,
                     returned |-> {}, raised |-> 0]]
    /\ constructed = {}
    /\ IdleText /\ IdleSummary /\ IdleDocs

\* if _document_comparison_service is None:
TestNone(t) ==
    /\ threads[t].pc = "idle"
    /\ threads[t].calls < MaxCalls
    /\ threads' = [threads EXCEPT
                     ![t].calls = @ + 1,
                     ![t].pc = IF _document_comparison_service = NoService
                               THEN "construct" ELSE "return"]
    /\ UNCHANGED <<_document_comparison_service, constructed>>
    /\ UNCHANGED <<textVars, sumVars, docVars>>

\* DocumentComparisonService() completes
Construct(t) ==
    /\ threads[t].pc = "construct"
    /\ \E credential \in Credentials :
          /\ __init__(credential).ok
          /\ LET instance == Cardinality(constructed) + 1
             IN  /\ constructed' = constructed \cup {instance}
                 /\ threads' = [threads EXCEPT ![t].new = instance,
                                               ![t].pc = "store"]
    /\ UNCHANGED _document_comparison_service
    /\ UNCHANGED <<textVars, sumVars, docVars>>

\* DocumentComparisonService() raises: the call ends, nothing is assigned
ConstructRaises(t) ==
    /\ threads[t].pc = "construct"
    /\ \E credential \in Credentials :
          /\ ~__init__(credential).ok
          /\ threads' = [threads EXCEPT ![t].pc = "idle", ![t].raised = @ + 1]
    /\ UNCHANGED <<_document_comparison_service, constructed>>
    /\ UNCHANGED <<textVars, sumVars, docVars>>

\* _document_comparison_service = <the new instance>
Store(t) ==
    /\ threads[t].pc = "store"
    /\ _document_comparison_service' = threads[t].new
    /\ threads' = [threads EXCEPT ![t].pc = "return", ![t].new = NoService]
    /\ UNCHANGED constructed
    /\ UNCHANGED <<textVars, sumVars, docVars>>

\* return _document_comparison_service
Return(t) ==
    /\ threads[t].pc = "return"
    /\ threads' = [threads EXCEPT
                     ![t].pc = "idle",
                     ![t].returned = @ \cup {_document_comparison_service}]
    /\ UNCHANGED <<_document_comparison_service, constructed>>
    /\ UNCHANGED <<textVars, sumVars, docVars>>

NextService ==
    \E t \in Callers :
        \/ TestNone(t)
        \/ Construct(t)
        \/ ConstructRaises(t)
        \/ Store(t)
        \/ Return(t)

SpecService == InitService /\ [][NextService]_vars

-----------------------------------------------------------------------------
(* Properties of the helpers *)

EndsWith(s, suffix) ==
    /\ Len(s) >= Len(suffix)
    /\ SubSeq(s, Len(s) - Len(suffix) + 1, Len(s)) = suffix

VerySimilar == "The documents are very similar."
ModerateSimilarity == "The documents have moderate similarity."
QuiteDifferent == "The documents are quite different."

\* the call summarize(0.8, 0, 0, {})
IsBoundaryCall ==
    /\ FEq(sumargs.score, <<4, 5>>)
    /\ sumargs.added = 0 /\ sumargs.removed = 0
    /\ sumargs.diff = <<>>

\* C3 as stated: for exactly the score 0.8 with no added or removed sentences
\* and an empty structure diff the summary ends with the "quite different"
\* qualifier and not with "very similar"; for the score 0.81 it ends with
\* "very similar".
C3_AsStated ==
    summary.outcome = "returned" =>
        /\ IsBoundaryCall =>
              /\ EndsWith(summary.value, QuiteDifferent)
              /\ ~EndsWith(summary.value, VerySimilar)
        /\ FEq(sumargs.score, <<81, 100>>) => EndsWith(summary.value, VerySimilar)

\* C3 amended: for exactly the score 0.8 with no added or removed sentences
\* and an empty structure diff the summary ends with the "moderate similarity"
\* qualifier (0.8 is not > 0.8 but is > 0.5), not with "very similar" nor with
\* "quite different"; for the score 0.81 it ends with "very similar".
C3_BoundaryIsModerate ==
    summary.outcome = "returned" =>
        /\ IsBoundaryCall =>
              /\ EndsWith(summary.value, ModerateSimilarity)
              /\ ~EndsWith(summary.value, VerySimilar)
              /\ ~EndsWith(summary.value, QuiteDifferent)
        /\ FEq(sumargs.score, <<81, 100>>) => EndsWith(summary.value, VerySimilar)

C3_Witness ==
    /\ summary.outcome = "returned"
    /\ IsBoundaryCall
    /\ summary.value =
         "The documents are 80.0% similar in content. The documents have moderate similarity."

\* The sentences the summary is specified to hold, each with the condition
\* under which it is present, in the specified order.
C4_Slots ==
    LET a == sumargs
        pd == IF "page_count_diff" \in DOMAIN a.diff THEN a.diff.page_count_diff ELSE 0
        td == IF "table_count_diff" \in DOMAIN a.diff THEN a.diff.table_count_diff ELSE 0
    IN  << <<TRUE, "The documents are " \o FormatTenths(RoundTenths(a.score))
                     \o "% similar in content.">>,
           <<a.added > 0, "Document 2 contains " \o ToString(a.added)
                     \o " additional sentence(s) not found in Document 1.">>,
           <<a.removed > 0, "Document 2 is missing " \o ToString(a.removed)
                     \o " sentence(s) that are present in Document 1.">>,
           <<pd > 0, "Document 2 has " \o ToString(pd) \o " more page(s) than Document 1.">>,
           <<pd < 0, "Document 2 has " \o ToString(0 - pd) \o " fewer page(s) than Document 1.">>,
           <<td > 0, "Document 2 has " \o ToString(td) \o " more table(s) than Document 1.">>,
           <<td < 0, "Document 2 has " \o ToString(0 - td) \o " fewer table(s) than Document 1.">>,
           <<a.score[1] * 5 > 4 * a.score[2], VerySimilar>>,
           <<a.score[1] * 2 > a.score[2] /\ a.score[1] * 5 <= 4 * a.score[2],
             ModerateSimilarity>>,
           <<a.score[1] * 2 <= a.score[2], QuiteDifferent>> >>

C4_Present == SelectSeq(C4_Slots, LAMBDA slot : slot[1])

\* C4: the summary is the opening sentence, then the added sentence iff
\* added_count > 0, the removed sentence iff removed_count > 0, a more/fewer
\* page(s) sentence iff page_count_diff is positive/negative, the same for
\* table_count_diff, and last exactly one closing sentence chosen by
\* score > 0.8, 0.5 < score <= 0.8, or otherwise; joined by single spaces.
C4_SummaryAssembly ==
    summary.outcome = "returned" =>
        /\ summary.value = join(" ", [i \in 1..Len(C4_Present) |-> C4_Present[i][2]])
        /\ Cardinality({i \in 8..10 : C4_Slots[i][1]}) = 1

C4_Witness ==
    /\ summary.outcome = "returned"
    /\ sumargs.added > 0 /\ sumargs.removed > 0
    /\ "page_count_diff" \in DOMAIN sumargs.diff /\ sumargs.diff.page_count_diff < 0
    /\ "table_count_diff" \in DOMAIN sumargs.diff /\ sumargs.diff.table_count_diff > 0
    /\ FEq(sumargs.score, <<1, 2>>)
    /\ EndsWith(summary.value, "fewer page(s) than Document 1. Document 2 has 1 more table(s) than Document 1. The documents are quite different.")

\* The maximal runs of characters of s outside the set sep, as index pairs.
Runs(s, sep) ==
    {r \in (1..Len(s)) \X (1..Len(s)) :
        /\ r[1] <= r[2]
        /\ \A k \in r[1]..r[2] : CharAt(s, k) \notin sep
        /\ r[1] = 1 \/ CharAt(s, r[1] - 1) \in sep
        /\ r[2] = Len(s) \/ CharAt(s, r[2] + 1) \in sep}

C5_Tokens(t) == {lower(SubSeq(t, r[1], r[2])) : r \in Runs(t, Whitespace)}

\* C5: the similarity is a value in [0,1]: 1.0 when both texts are empty, 0.0
\* when exactly one is empty, otherwise |A \cap B| / |A \cup B| over the sets
\* of lower-cased whitespace-separated tokens, and 1.0 when A \cup B is empty.
C5_Jaccard ==
    similarity.outcome = "returned" =>
        LET v == similarity.value
            A == C5_Tokens(text1)
            B == C5_Tokens(text2)
        IN  /\ v[2] > 0 /\ 0 <= v[1] /\ v[1] <= v[2]
            /\ (text1 = "" /\ text2 = "") => FEq(v, <<1, 1>>)
            /\ ((text1 = "") # (text2 = "")) => FEq(v, <<0, 1>>)
            /\ (text1 # "" /\ text2 # "") =>
                 IF A \cup B = {} THEN FEq(v, <<1, 1>>)
                 ELSE FEq(v, <<Cardinality(A \cap B), Cardinality(A \cup B)>>)

C5_Witness ==
    /\ similarity.outcome = "returned"
    /\ text1 = "A b" /\ text2 = "a"
    /\ similarity.value = <<1, 2>>

\* The fragments between boundary runs that hold a non-whitespace character,
\* each narrowed to its first and last non-whitespace character.
C6_Kept(t) ==
    LET solid(r) == {k \in r[1]..r[2] : CharAt(t, k) \notin Whitespace}
        lo(K) == CHOOSE k \in K : \A m \in K : k <= m
        hi(K) == CHOOSE k \in K : \A m \in K : k >= m
    IN  {<<lo(solid(r)), hi(solid(r))>> : r \in {q \in Runs(t, Boundary) : solid(q) # {}}}

\* C6: the result is, in order of appearance, the trimmed fragments between
\* maximal runs of '.', '!', '?', the fragments empty after trimming dropped;
\* no sentence is empty, starts or ends with whitespace, or holds a boundary
\* character; a text of boundary characters and whitespace only yields <<>>.
C6_Segmentation ==
    sentences.outcome = "returned" =>
        LET r == sentences.value
            K == C6_Kept(text1)
        IN  /\ Len(r) = Cardinality(K)
            /\ \A n \in 1..Len(r) :
                 \E f \in K :
                    /\ Cardinality({g \in K : g[1] < f[1]}) = n - 1
                    /\ r[n] = SubSeq(text1, f[1], f[2])
            /\ \A n \in 1..Len(r) :
                 /\ Len(r[n]) > 0
                 /\ CharAt(r[n], 1) \notin Whitespace
                 /\ CharAt(r[n], Len(r[n])) \notin Whitespace
                 /\ \A k \in 1..Len(r[n]) : CharAt(r[n], k) \notin Boundary
            /\ (\A k \in 1..Len(text1) : CharAt(text1, k) \in Boundary \cup Whitespace)
                 => r = <<>>

C6_Witness ==
    /\ sentences.outcome = "returned"
    /\ text1 = "a.? b"
    /\ sentences.value = <<"a", "b">>

-----------------------------------------------------------------------------
(* Properties of compare_documents *)

ReportKeys ==
    {"document1", "document2", "similarity_score", "differences",
     "structure_comparison", "summary"}

\* C1: in every report, total_added + common_content_count is the number of
\* distinct sentences of doc2's content and total_removed +
\* common_content_count the number of distinct sentences of doc1's content.
C1_TotalsPartition ==
    report.outcome = "returned" =>
        LET d == report.value.differences
        IN  /\ d.total_added + d.common_content_count
                 = Cardinality(SentenceSet(doc2))
            /\ d.total_removed + d.common_content_count
                 = Cardinality(SentenceSet(doc1))

C1_Witness ==
    /\ report.outcome = "returned"
    /\ "content" \in DOMAIN doc1 /\ "content" \in DOMAIN doc2
    /\ doc1.content.v = "a.a" /\ doc2.content.v = "b.a"
    /\ report.value.differences.total_added = 1
    /\ report.value.differences.common_content_count = 1
    /\ report.value.differences.total_removed = 0

Distinct(l) == Cardinality(set(l)) = Len(l)
Min(a, b) == IF a < b THEN a ELSE b

\* C2: added_content has exactly min(10, total_added) entries, all distinct
\* and all in (doc2 sentences minus doc1 sentences), while total_added is the
\* size of that whole set; the same for removed_content and total_removed with
\* the documents' roles exchanged.
C2_CappedLists ==
    report.outcome = "returned" =>
        LET d == report.value.differences
            added == SentenceSet(doc2) \ SentenceSet(doc1)
            removed == SentenceSet(doc1) \ SentenceSet(doc2)
        IN  /\ d.total_added = Cardinality(added)
            /\ Len(d.added_content) = Min(10, d.total_added)
            /\ Distinct(d.added_content)
            /\ set(d.added_content) \subseteq added
            /\ d.total_removed = Cardinality(removed)
            /\ Len(d.removed_content) = Min(10, d.total_removed)
            /\ Distinct(d.removed_content)
            /\ set(d.removed_content) \subseteq removed

C2_Witness ==
    /\ report.outcome = "returned"
    /\ report.value.differences.total_added = 11
    /\ Len(report.value.differences.added_content) = 10
    /\ report.value.differences.added_content[1] # "ab"
    /\ report.value.differences.total_removed = 1

FieldType ==
    [filename |-> "str", content |-> "str", pages |-> "list",
     tables |-> "list", page_count |-> "int"]

\* every field that is present holds a value of its type
WellTyped(d) == \A k \in DOMAIN d : d[k].type = FieldType[k]

SomeFieldAbsent(d) == DOMAIN d # Fields

C7_Defaulted(d, part, pages, tables, label, r) ==
    /\ "content" \notin DOMAIN d => part.content_length = 0
    /\ "page_count" \notin DOMAIN d => part.page_count = 0 /\ pages = 0
    /\ "tables" \notin DOMAIN d => part.table_count = 0 /\ tables = 0
    /\ "filename" \notin DOMAIN d => part.filename = PyStr(label)
    /\ "content" \in DOMAIN d => part.content_length = Len(d.content.v)
    /\ "page_count" \in DOMAIN d => part.page_count = d.page_count.v /\ pages = d.page_count.v
    /\ "tables" \in DOMAIN d => part.table_count = Len(d.tables.v) /\ tables = Len(d.tables.v)
    /\ "filename" \in DOMAIN d => part.filename = d.filename

\* C7: when any subset of filename, content, pages, tables, page_count is
\* absent from either document, compare_documents returns a complete report
\* in which an absent content counts as the empty string, an absent page_count
\* as 0, absent tables as no tables, an absent filename as 'Document 1' /
\* 'Document 2'.
C7_MissingFields ==
    (report.outcome # "none" /\ WellTyped(doc1) /\ WellTyped(doc2)
       /\ (SomeFieldAbsent(doc1) \/ SomeFieldAbsent(doc2))) =>
        /\ report.outcome = "returned"
        /\ DOMAIN report.value = ReportKeys
        /\ LET r == report.value
               sc == r.structure_comparison
           IN  /\ C7_Defaulted(doc1, r.document1, sc.doc1_pages, sc.doc1_tables,
                               "Document 1", r)
               /\ C7_Defaulted(doc2, r.document2, sc.doc2_pages, sc.doc2_tables,
                               "Document 2", r)
               /\ sc.page_count_diff = sc.doc2_pages - sc.doc1_pages
               /\ sc.table_count_diff = sc.doc2_tables - sc.doc1_tables
               /\ "content" \notin DOMAIN doc1 =>
                    /\ r.differences.total_removed = 0
                    /\ r.differences.common_content_count = 0
                    /\ FEq(r.similarity_score,
                           IF "content" \in DOMAIN doc2 /\ doc2.content.v # ""
                           THEN <<0, 1>> ELSE <<1, 1>>)
               /\ "content" \notin DOMAIN doc2 =>
                    /\ r.differences.total_added = 0
                    /\ r.differences.common_content_count = 0
                    /\ FEq(r.similarity_score,
                           IF "content" \in DOMAIN doc1 /\ doc1.content.v # ""
                           THEN <<0, 1>> ELSE <<1, 1>>)

C7_Witness ==
    /\ report.outcome = "returned"
    /\ doc1 = <<>>
    /\ DOMAIN doc2 = {"content", "page_count"}
    /\ doc2.page_count.v = 1
    /\ report.value.document1.filename = PyStr("Document 1")
    /\ report.value.structure_comparison.page_count_diff = 1
    /\ report.value.differences.total_added = 2

\* some step of compare_documents(d1, d2) raises: a content that is not a
\* string, a page_count that is not a number, or tables without a length
SomeStepRaises(d1, d2) ==
    \E d \in {d1, d2} :
        \E k \in {"content", "page_count", "tables"} \cap DOMAIN d :
            d[k].type # FieldType[k]

\* C8: whenever a step of compare_documents raises, the call ends with one
\* generic failure whose message is 'Failed to compare documents: ' followed
\* by the cause's message, and no report, complete or partial, is returned.
C8_FailureWrapped ==
    (report.outcome # "none" /\ SomeStepRaises(doc1, doc2)) =>
        /\ report.outcome = "raised"
        /\ DOMAIN report = {"outcome", "exception"}
        /\ report.exception.type = "Exception"
        /\ report.exception.context.type \in {"TypeError", "AttributeError"}
        /\ report.exception.message
             = "Failed to compare documents: " \o report.exception.context.message

C8_Witness ==
    /\ report.outcome = "raised"
    /\ "content" \in DOMAIN doc1
    /\ doc1.content = PyNone
    /\ WellTyped(doc2)
    /\ report.exception.message =
         "Failed to compare documents: expected string or bytes-like object, got 'NoneType'"

\* C10: compare_documents(doc2, doc1) has the similarity_score and
\* common_content_count of compare_documents(doc1, doc2), its total_added and
\* total_removed exchanged, and its page_count_diff and table_count_diff
\* negated; a document compared with itself gives similarity 1.0, no added or
\* removed sentences and both diffs 0.
C10_ExchangeMirrors ==
    /\ (report.outcome = "returned" /\ exchanged.outcome = "returned") =>
          LET r == report.value
              x == exchanged.value
          IN  /\ FEq(x.similarity_score, r.similarity_score)
              /\ x.differences.common_content_count = r.differences.common_content_count
              /\ x.differences.total_added = r.differences.total_removed
              /\ x.differences.total_removed = r.differences.total_added
              /\ x.structure_comparison.page_count_diff
                   = 0 - r.structure_comparison.page_count_diff
              /\ x.structure_comparison.table_count_diff
                   = 0 - r.structure_comparison.table_count_diff
    /\ (report.outcome = "returned" /\ doc1 = doc2) =>
          LET r == report.value
          IN  /\ FEq(r.similarity_score, <<1, 1>>)
              /\ r.differences.total_added = 0
              /\ r.differences.total_removed = 0
              /\ r.structure_comparison.page_count_diff = 0
              /\ r.structure_comparison.table_count_diff = 0

C10_Witness ==
    /\ report.outcome = "returned" /\ exchanged.outcome = "returned"
    /\ report.value.differences.total_added = 2
    /\ report.value.differences.total_removed = 0
    /\ report.value.structure_comparison.page_count_diff = 1
    /\ report.value.structure_comparison.table_count_diff = -1
    /\ exchanged.value.differences.total_removed = 2
    /\ exchanged.value.structure_comparison.page_count_diff = -1

-----------------------------------------------------------------------------
(* Properties of get_document_comparison_service *)

\* C9: over any interleaving of calls from concurrent callers, at most one
\* DocumentComparisonService is ever constructed successfully and every call
\* that returns hands back that same instance.
C9_OneInstance ==
    /\ Cardinality(constructed) <= 1
    /\ Cardinality(UNION {threads[t].returned : t \in Callers}) <= 1

====
